---- MODULE Spec2Model ----
(***************************************************************************)
(* The Democratic Decision Engine of IMAP-DemAgSys                         *)
(* (src/tools/team_voting_tool.py, class DemocraticVotingLogic) as a state *)
(* machine: the active and completed decision stores, the seven engine     *)
(* operations, the Borda tally, and the check-then-append steps of         *)
(* add_agent_proposal and submit_agent_vote as separate thread steps.      *)
(* With it the tools agents call on the engine and the clustering and      *)
(* option synthesis of ProposalSynthesisLogic                              *)
(* (src/tools/synthesis_tools.py).                                         *)
(*                                                                         *)
(* Left out of a decision record: trigger_reason, context, start_time and  *)
(* the timestamp of proposals and votes.  They are written once and no     *)
(* engine operation reads them.                                            *)
(***************************************************************************)
EXTENDS Integers, Sequences, FiniteSets, TLC

VARIABLES
    now,                  \* int(time.time()): the clock's whole-second value
    active_decisions,     \* DemocraticVotingLogic.active_decisions (dict id -> decision)
    completed_decisions,  \* DemocraticVotingLogic.completed_decisions (list)
    last,                 \* the most recent engine call: operation, decision_id, agent_name, outcome
    status,               \* what the most recent get_decision_status returned (<<>> = None)
    threads               \* per thread: the submit call in flight and its position

vars == <<now, active_decisions, completed_decisions, last, status, threads>>

----------------------------------------------------------------------------
(* Bounds of the model *)

MaxClock == 1       \* the clock runs over 0..MaxClock
MaxOptions == 2     \* synthesize_options is given at most this many options
MaxRank == 1        \* a ballot ranks at most this many option ids
MaxDecisions == 2   \* decision records held at once in the multi-decision specification
MaxTallyOptions == 3 \* options of a decision whose tally is computed directly
MaxTallyRank == 3   \* a ballot of such a decision ranks at most this many option ids
MaxTallies == 1     \* direct calls of calculate_ranked_choice_winner on one decision
MaxClusterProposals == 4 \* proposals of a decision whose proposals are clustered
MaxOptionsAsked == 4 \* generate_voting_options is asked for at most this many options

----------------------------------------------------------------------------
(* Enumerations and input domains *)

VotingPhase ==
    {"context_loading", "idea_collection", "synthesis", "ranked_voting", "commitment"}

ConflictType ==
    {"architecture_decision", "agent_disagreement", "ux_ui_direction",
     "performance_tradeoff", "manual_trigger"}

AgentNames == {"A", "B"}

\* participating_agents lists handed to trigger (a list may repeat a name)
ParticipantLists == {<<"A">>, <<"A", "B">>, <<"A", "A">>}

ProposalTexts == {"Option Alpha"}
ReasoningTexts == {"because"}

\* the option dictionaries handed to synthesize_options: odd positions carry
\* every key, even positions only a description
OptionData(position) ==
    IF position % 2 = 1
    THEN [title |-> "Alpha", description |-> "Enhanced Alpha", source_proposals |-> <<"A">>]
    ELSE [description |-> "Untitled"]

\* the lists handed to synthesize_options
OptionLists == {[i \in 1..k |-> OptionData(i)] : k \in 0..MaxOptions}

\* finalize's final_decision_text; "" stands for both None and the empty string
FinalTexts == {"", "Ship it"}

RECURSIVE SeqsUpTo(_, _)
SeqsUpTo(S, n) ==
    IF n = 0 THEN {<<>>}
    ELSE LET shorter == SeqsUpTo(S, n - 1)
         IN  shorter \cup {Append(s, x) : s \in shorter, x \in S}

Range(f) == {f[i] : i \in DOMAIN f}

\* the ranked_option_ids lists handed to submit_vote
Ballots == SeqsUpTo({"option_" \o ToString(i) : i \in 1..MaxOptions}, MaxRank)

Min(a, b) == IF a < b THEN a ELSE b

----------------------------------------------------------------------------
(* Data model *)

\* f"option_{i+1}" for the 0-based index i, here with the 1-based position
OptionId(position) == "option_" \o ToString(position)

\* f"Option {i+1}"
DefaultTitle(position) == "Option " \o ToString(position)

\* dict.get(key, default)
Get(dict, key, default) == IF key \in DOMAIN dict THEN dict[key] ELSE default

\* f"decision_{int(time.time())}_{conflict_type.value}"
DecisionId(second, conflict_type) == <<second, conflict_type>>

NoId == <<-1, "">>

AgentProposal(agent_name, proposal, reasoning) ==
    [agent_name |-> agent_name, proposal |-> proposal, reasoning |-> reasoning]

VotingOption(option_id, title, description, source_proposals) ==
    [option_id |-> option_id, title |-> title, description |-> description,
     source_proposals |-> source_proposals]

AgentVote(agent_name, ranked_options, reasoning) ==
    [agent_name |-> agent_name, ranked_options |-> ranked_options,
     reasoning_for_top_choice |-> reasoning]

\* final_decision is a text; the model keeps its parts apart.
\* kind "empty" is "", "given" is the text handed to finalize, "tally" is the
\* text calculate_ranked_choice_winner renders.
EmptyText ==
    [kind |-> "empty", text |-> "", winner_title |-> "", scores |-> <<>>, details |-> ""]

GivenText(text) ==
    [kind |-> "given", text |-> text, winner_title |-> "", scores |-> <<>>, details |-> ""]

TallyText(winner_title, scores, details) ==
    [kind |-> "tally", text |-> "DEMOCRATIC DECISION COMPLETE!",
     winner_title |-> winner_title, scores |-> scores, details |-> details]

\* The record trigger_democratic_decision constructs.  winning_option and
\* end_time are Optional: <<>> is None, <<v>> is the value v.  tally_runs
\* counts the calls of calculate_ranked_choice_winner made for this record.
DemocraticDecision(decision_id, conflict_type, participating_agents) ==
    [decision_id |-> decision_id,
     conflict_type |-> conflict_type,
     proposals |-> <<>>,
     voting_options |-> <<>>,
     votes |-> <<>>,
     winning_option_id |-> "",
     winning_option |-> <<>>,
     final_decision |-> EmptyText,
     end_time |-> <<>>,
     current_phase |-> "context_loading",
     participating_agents |-> participating_agents,
     tally_runs |-> 0]

\* DemocraticDecision.to_dict: the snapshot get_decision_status returns
to_dict(decision) ==
    [decision_id |-> decision.decision_id,
     conflict_type |-> decision.conflict_type,
     proposals |-> decision.proposals,
     voting_options |-> decision.voting_options,
     votes |-> decision.votes,
     winning_option_id |-> decision.winning_option_id,
     winning_option |-> decision.winning_option,
     final_decision |-> decision.final_decision,
     end_time |-> decision.end_time,
     current_phase |-> decision.current_phase,
     participating_agents |-> decision.participating_agents]

ActiveIds == DOMAIN active_decisions

CompletedIds == {completed_decisions[i].decision_id : i \in DOMAIN completed_decisions}

\* self.active_decisions[decision_id] = decision
Put(store, decision_id, decision) ==
    [d \in (DOMAIN store) \cup {decision_id} |->
        IF d = decision_id THEN decision ELSE store[d]]

\* del self.active_decisions[decision_id]
Del(store, decision_id) ==
    [d \in (DOMAIN store) \ {decision_id} |-> store[d]]

Call(op, decision_id, agent_name, ret) ==
    [op |-> op, decision_id |-> decision_id, agent_name |-> agent_name, ret |-> ret]

----------------------------------------------------------------------------
(* calculate_ranked_choice_winner: the Borda count *)

\* [opt.option_id for opt in decision.voting_options]
valid_option_ids(decision) ==
    {decision.voting_options[i].option_id : i \in DOMAIN decision.voting_options}

\* the scoring loop running over the whole ballot instead of its first n entries
Truncated_keeps_all(ranked_options, n) == ranked_options

\* vote.ranked_options[:len(decision.voting_options)]
Truncated(ranked_options, n) == SubSeq(ranked_options, 1, Min(Len(ranked_options), n))

\* option_scores[option_id] += points raises KeyError when option_id is no key
\* of option_scores, that is, no option_id of the current voting_options.
RaisesKeyError(decision) ==
    \E v \in DOMAIN decision.votes :
        \E rank \in DOMAIN Truncated(decision.votes[v].ranked_options,
                                     Len(decision.voting_options)) :
            decision.votes[v].ranked_options[rank] \notin valid_option_ids(decision)

\* the points one ballot gives to option_id: max_points - rank for every
\* (0-based) rank below max_points at which the ballot names option_id
RECURSIVE BallotPoints(_, _, _, _)
BallotPoints(ranked_options, option_id, max_points, position) ==
    IF position > Len(Truncated(ranked_options, max_points)) THEN 0
    ELSE (IF ranked_options[position] = option_id
            THEN max_points - (position - 1) ELSE 0)
         + BallotPoints(ranked_options, option_id, max_points, position + 1)

\* the loop over decision.votes counting the first recorded vote only
ScoreFrom_first_vote_only(decision, option_id, v) ==
    IF v > 1 \/ decision.votes = <<>> THEN 0
    ELSE BallotPoints(decision.votes[1].ranked_options, option_id,
                      Len(decision.voting_options), 1)

\* option_scores[option_id] once the loop over decision.votes has ended
RECURSIVE ScoreFrom(_, _, _)
ScoreFrom(decision, option_id, v) ==
    IF v > Len(decision.votes) THEN 0
    ELSE BallotPoints(decision.votes[v].ranked_options, option_id,
                      Len(decision.voting_options), 1)
         + ScoreFrom(decision, option_id, v + 1)

option_scores(decision) ==
    [i \in DOMAIN decision.voting_options |->
        ScoreFrom(decision, decision.voting_options[i].option_id, 1)]

\* max taking the last item of maximal score instead of the first
WinnerIndex_last_max(scores) ==
    CHOOSE i \in DOMAIN scores :
        /\ \A j \in DOMAIN scores : scores[j] <= scores[i]
        /\ \A j \in DOMAIN scores : j > i => scores[j] < scores[i]

\* max(option_scores.items(), key=lambda x: x[1]): the first item, in the
\* dict's insertion order (the order of voting_options), of maximal score
WinnerIndex(scores) ==
    CHOOSE i \in DOMAIN scores :
        /\ \A j \in DOMAIN scores : scores[j] <= scores[i]
        /\ \A j \in DOMAIN scores : j < i => scores[j] < scores[i]

\* sorted(option_scores.items(), key=lambda x: x[1], reverse=True): by score
\* descending, items of equal score in their original order (the sort is stable)
SortedByScore(scores) ==
    LET place(i) ==
            1 + Cardinality({j \in DOMAIN scores : scores[j] > scores[i]})
              + Cardinality({j \in DOMAIN scores : scores[j] = scores[i] /\ j < i})
    IN  [k \in DOMAIN scores |-> CHOOSE i \in DOMAIN scores : place(i) = k]

\* The decision after calculate_ranked_choice_winner returned normally.
\* It returns None, changing nothing, when there are no votes or no options.
TallyResult(decision) ==
    IF decision.votes = <<>> \/ decision.voting_options = <<>> THEN decision
    ELSE LET scores == option_scores(decision)
             w == WinnerIndex(scores)
             order == SortedByScore(scores)
             winner == decision.voting_options[w]
         IN  [decision EXCEPT
                !.winning_option_id = winner.option_id,
                !.winning_option = <<winner>>,
                !.final_decision =
                    TallyText(winner.title,
                              [k \in DOMAIN order |->
                                  [title |-> decision.voting_options[order[k]].title,
                                   score |-> scores[order[k]]]],
                              winner.description)]

\* calculate_ranked_choice_winner on a decision of active storage:
\* [raised |-> whether KeyError left the call, decision |-> the record after it]
calculate_ranked_choice_winner(decision) ==
    LET counted == [decision EXCEPT !.tally_runs = @ + 1]
    IN  IF decision.votes # <<>> /\ decision.voting_options # <<>>
           /\ RaisesKeyError(decision)
        THEN [raised |-> TRUE, decision |-> counted]
        ELSE [raised |-> FALSE, decision |-> TallyResult(counted)]

----------------------------------------------------------------------------
(* The checks of the engine operations *)

HasProposed(decision, agent_name) ==
    \E p \in DOMAIN decision.proposals : decision.proposals[p].agent_name = agent_name

HasVoted(decision, agent_name) ==
    \E v \in DOMAIN decision.votes : decision.votes[v].agent_name = agent_name

\* add_agent_proposal without its duplicate check
add_agent_proposal_accepts_duplicates(decision_id, agent_name) ==
    /\ decision_id \in DOMAIN active_decisions
    /\ active_decisions[decision_id].current_phase = "idea_collection"
    /\ agent_name \in Range(active_decisions[decision_id].participating_agents)

\* add_agent_proposal without its phase check
add_agent_proposal_accepts_any_phase(decision_id, agent_name) ==
    /\ decision_id \in DOMAIN active_decisions
    /\ agent_name \in Range(active_decisions[decision_id].participating_agents)
    /\ ~HasProposed(active_decisions[decision_id], agent_name)

\* add_agent_proposal passes its four early returns
add_agent_proposal_accepts(decision_id, agent_name) ==
    /\ decision_id \in DOMAIN active_decisions
    /\ active_decisions[decision_id].current_phase = "idea_collection"
    /\ agent_name \in Range(active_decisions[decision_id].participating_agents)
    /\ ~HasProposed(active_decisions[decision_id], agent_name)

\* synthesize_options passes its two early returns
synthesize_options_accepts(decision_id) ==
    /\ decision_id \in DOMAIN active_decisions
    /\ active_decisions[decision_id].current_phase = "synthesis"

\* submit_agent_vote without its duplicate check
submit_agent_vote_accepts_duplicates(decision_id, agent_name, ranked_option_ids) ==
    /\ decision_id \in DOMAIN active_decisions
    /\ active_decisions[decision_id].current_phase = "ranked_voting"
    /\ agent_name \in Range(active_decisions[decision_id].participating_agents)
    /\ \A i \in DOMAIN ranked_option_ids :
          ranked_option_ids[i] \in valid_option_ids(active_decisions[decision_id])

\* submit_agent_vote passes its five early returns
submit_agent_vote_accepts(decision_id, agent_name, ranked_option_ids) ==
    /\ decision_id \in DOMAIN active_decisions
    /\ active_decisions[decision_id].current_phase = "ranked_voting"
    /\ agent_name \in Range(active_decisions[decision_id].participating_agents)
    /\ ~HasVoted(active_decisions[decision_id], agent_name)
    /\ \A i \in DOMAIN ranked_option_ids :
          ranked_option_ids[i] \in valid_option_ids(active_decisions[decision_id])

\* decision.proposals.append(agent_proposal)
WithProposal(decision, agent_name, proposal, reasoning) ==
    [decision EXCEPT !.proposals = Append(@, AgentProposal(agent_name, proposal, reasoning))]

\* synthesize_options appending to voting_options instead of replacing them
WithOptions_appends(decision, synthesized_options) ==
    [decision EXCEPT !.voting_options =
        @ \o [i \in DOMAIN synthesized_options |->
                VotingOption(OptionId(i),
                             Get(synthesized_options[i], "title", DefaultTitle(i)),
                             Get(synthesized_options[i], "description", ""),
                             Get(synthesized_options[i], "source_proposals", <<>>))]]

\* the loop of synthesize_options over enumerate(synthesized_options)
WithOptions(decision, synthesized_options) ==
    [decision EXCEPT !.voting_options =
        [i \in DOMAIN synthesized_options |->
            VotingOption(OptionId(i),
                         Get(synthesized_options[i], "title", DefaultTitle(i)),
                         Get(synthesized_options[i], "description", ""),
                         Get(synthesized_options[i], "source_proposals", <<>>))]]

\* decision.votes.append(vote)
WithVote(decision, agent_name, ranked_option_ids, reasoning) ==
    [decision EXCEPT !.votes = Append(@, AgentVote(agent_name, ranked_option_ids, reasoning))]

\* the threshold check answering yes after every vote
AllVotesIn_after_every_vote(decision) == Len(decision.votes) >= 1

\* the threshold check answering yes once half of the participants have voted
AllVotesIn_half(decision) == 2 * Len(decision.votes) >= Len(decision.participating_agents)

\* if len(decision.votes) >= len(decision.participating_agents)
AllVotesIn(decision) == Len(decision.votes) >= Len(decision.participating_agents)

\* the end of submit_agent_vote moving the decision to COMMITMENT once all votes are in
AfterVote_commits(decision) ==
    IF AllVotesIn(decision)
    THEN [raised |-> FALSE,
          decision |-> [TallyResult([decision EXCEPT !.tally_runs = @ + 1])
                           EXCEPT !.current_phase = "commitment"]]
    ELSE [raised |-> FALSE, decision |-> decision]

\* the end of submit_agent_vote, after the append: the threshold check and the tally
AfterVote(decision) ==
    IF AllVotesIn(decision) THEN calculate_ranked_choice_winner(decision)
    ELSE [raised |-> FALSE, decision |-> decision]

\* finalize_decision overwriting final_decision even when no text is given
Finalized_overwrites_text(decision, final_decision_text) ==
    [decision EXCEPT
        !.final_decision = GivenText(final_decision_text),
        !.end_time = <<now>>,
        !.current_phase = "commitment"]

\* finalize_decision setting end_time and leaving current_phase as it is
Finalized_keeps_phase(decision, final_decision_text) ==
    [decision EXCEPT
        !.final_decision = IF final_decision_text # "" THEN GivenText(final_decision_text) ELSE @,
        !.end_time = <<now>>]

\* finalize_decision's changes to the record
Finalized(decision, final_decision_text) ==
    [decision EXCEPT
        !.final_decision = IF final_decision_text # "" THEN GivenText(final_decision_text) ELSE @,
        !.end_time = <<now>>,
        !.current_phase = "commitment"]

\* get_decision_status: active storage first, then the first completed record of that id
get_decision_status(decision_id) ==
    IF decision_id \in DOMAIN active_decisions
    THEN <<to_dict(active_decisions[decision_id])>>
    ELSE IF \E i \in DOMAIN completed_decisions :
                completed_decisions[i].decision_id = decision_id
    THEN LET first == CHOOSE i \in DOMAIN completed_decisions :
                        /\ completed_decisions[i].decision_id = decision_id
                        /\ \A j \in 1..(i - 1) :
                              completed_decisions[j].decision_id # decision_id
         IN  <<to_dict(completed_decisions[first])>>
    ELSE <<>>

----------------------------------------------------------------------------
(* The engine operations, each one whole call *)

Idle == [pc |-> "idle", decision_id |-> NoId, agent_name |-> "", arg |-> <<>>]

AllIdle == \A t \in DOMAIN threads : threads[t].pc = "idle"

\* the clock's whole-second value advances
Tick ==
    /\ now < MaxClock
    /\ now' = now + 1
    /\ UNCHANGED <<active_decisions, completed_decisions, last, status, threads>>

\* trigger_democratic_decision emptying active storage before it stores the new decision
trigger_democratic_decision_resets_store(conflict_type, participating_agents) ==
    LET decision_id == DecisionId(now, conflict_type)
    IN  /\ active_decisions' =
              Put([d \in {} |-> 0], decision_id,
                  DemocraticDecision(decision_id, conflict_type, participating_agents))
        /\ last' = Call("trigger", decision_id, "", "id")
        /\ status' = <<>>
        /\ UNCHANGED <<now, completed_decisions, threads>>

trigger_democratic_decision(conflict_type, participating_agents) ==
    LET decision_id == DecisionId(now, conflict_type)
    IN  /\ active_decisions' =
              Put(active_decisions, decision_id,
                  DemocraticDecision(decision_id, conflict_type, participating_agents))
        /\ last' = Call("trigger", decision_id, "", "id")
        /\ status' = <<>>
        /\ UNCHANGED <<now, completed_decisions, threads>>

\* TriggerDemocraticDecisionTool._run without its check of participating_agents
TriggerToolRejects_type_only(conflict_type, participating_agents) ==
    conflict_type \notin ConflictType

\* the two TOOL_ERROR returns of TriggerDemocraticDecisionTool._run:
\* ConflictType(conflict_type) raises ValueError, or participating_agents is empty
TriggerToolRejects(conflict_type, participating_agents) ==
    \/ conflict_type \notin ConflictType
    \/ participating_agents = <<>>

\* TriggerDemocraticDecisionTool._run: the validation, the engine's trigger and
\* the advance_phase to IDEA_COLLECTION that follows it
TriggerDemocraticDecisionTool_run(conflict_type, participating_agents) ==
    /\ IF TriggerToolRejects(conflict_type, participating_agents)
       THEN /\ UNCHANGED active_decisions
            /\ last' = Call("trigger_tool", NoId, "", "TOOL_ERROR")
       ELSE LET decision_id == DecisionId(now, conflict_type)
                triggered == Put(active_decisions, decision_id,
                                 DemocraticDecision(decision_id, conflict_type,
                                                    participating_agents))
            IN  /\ active_decisions' =
                      [triggered EXCEPT ![decision_id].current_phase = "idea_collection"]
                /\ last' = Call("trigger_tool", decision_id, "", "id")
    /\ status' = <<>>
    /\ UNCHANGED <<now, completed_decisions, threads>>

\* advance_phase refusing to go back to an earlier phase
advance_phase_forward_only(decision_id, new_phase) ==
    LET order == [context_loading |-> 1, idea_collection |-> 2, synthesis |-> 3,
                  ranked_voting |-> 4, commitment |-> 5]
    IN  /\ IF /\ decision_id \in DOMAIN active_decisions
              /\ order[new_phase] >= order[active_decisions[decision_id].current_phase]
           THEN /\ active_decisions' =
                      [active_decisions EXCEPT ![decision_id].current_phase = new_phase]
                /\ last' = Call("advance_phase", decision_id, "", "True")
           ELSE /\ UNCHANGED active_decisions
                /\ last' = Call("advance_phase", decision_id, "", "False")
        /\ status' = <<>>
        /\ UNCHANGED <<now, completed_decisions, threads>>

advance_phase(decision_id, new_phase) ==
    /\ IF decision_id \in DOMAIN active_decisions
       THEN /\ active_decisions' =
                  [active_decisions EXCEPT ![decision_id].current_phase = new_phase]
            /\ last' = Call("advance_phase", decision_id, "", "True")
       ELSE /\ UNCHANGED active_decisions
            /\ last' = Call("advance_phase", decision_id, "", "False")
    /\ status' = <<>>
    /\ UNCHANGED <<now, completed_decisions, threads>>

add_agent_proposal(decision_id, agent_name, proposal, reasoning) ==
    /\ IF add_agent_proposal_accepts(decision_id, agent_name)
       THEN /\ active_decisions' =
                  [active_decisions EXCEPT ![decision_id] =
                      WithProposal(@, agent_name, proposal, reasoning)]
            /\ last' = Call("submit_proposal", decision_id, agent_name, "True")
       ELSE /\ UNCHANGED active_decisions
            /\ last' = Call("submit_proposal", decision_id, agent_name, "False")
    /\ status' = <<>>
    /\ UNCHANGED <<now, completed_decisions, threads>>

synthesize_options(decision_id, synthesized_options) ==
    /\ IF synthesize_options_accepts(decision_id)
       THEN /\ active_decisions' =
                  [active_decisions EXCEPT ![decision_id] =
                      WithOptions(@, synthesized_options)]
            /\ last' = Call("synthesize_options", decision_id, "", "True")
       ELSE /\ UNCHANGED active_decisions
            /\ last' = Call("synthesize_options", decision_id, "", "False")
    /\ status' = <<>>
    /\ UNCHANGED <<now, completed_decisions, threads>>

\* The call ends with True, with False, or with the KeyError the tally raised
\* after the vote was appended.
submit_agent_vote(decision_id, agent_name, ranked_option_ids, reasoning) ==
    /\ IF submit_agent_vote_accepts(decision_id, agent_name, ranked_option_ids)
       THEN LET end == AfterVote(WithVote(active_decisions[decision_id], agent_name,
                                          ranked_option_ids, reasoning))
            IN  /\ active_decisions' =
                      [active_decisions EXCEPT ![decision_id] = end.decision]
                /\ last' = Call("submit_vote", decision_id, agent_name,
                                IF end.raised THEN "KeyError" ELSE "True")
       ELSE /\ UNCHANGED active_decisions
            /\ last' = Call("submit_vote", decision_id, agent_name, "False")
    /\ status' = <<>>
    /\ UNCHANGED <<now, completed_decisions, threads>>

\* finalize_decision keeping only the record it has just completed
finalize_decision_keeps_latest(decision_id, final_decision_text) ==
    /\ IF decision_id \in DOMAIN active_decisions
       THEN /\ completed_decisions' =
                  <<Finalized(active_decisions[decision_id], final_decision_text)>>
            /\ active_decisions' = Del(active_decisions, decision_id)
            /\ last' = Call("finalize", decision_id, "", "True")
       ELSE /\ UNCHANGED <<active_decisions, completed_decisions>>
            /\ last' = Call("finalize", decision_id, "", "False")
    /\ status' = <<>>
    /\ UNCHANGED <<now, threads>>

finalize_decision(decision_id, final_decision_text) ==
    /\ IF decision_id \in DOMAIN active_decisions
       THEN /\ completed_decisions' =
                  Append(completed_decisions,
                         Finalized(active_decisions[decision_id], final_decision_text))
            /\ active_decisions' = Del(active_decisions, decision_id)
            /\ last' = Call("finalize", decision_id, "", "True")
       ELSE /\ UNCHANGED <<active_decisions, completed_decisions>>
            /\ last' = Call("finalize", decision_id, "", "False")
    /\ status' = <<>>
    /\ UNCHANGED <<now, threads>>

\* calculate_ranked_choice_winner called by its decision_id: it returns the
\* winner's id, or None, or raises the KeyError of the scoring loop
calculate_winner(decision_id) ==
    /\ IF decision_id \in DOMAIN active_decisions
       THEN LET end == calculate_ranked_choice_winner(active_decisions[decision_id])
            IN  /\ active_decisions' = [active_decisions EXCEPT ![decision_id] = end.decision]
                /\ last' = Call("calculate_winner", decision_id, "",
                                IF end.raised THEN "KeyError"
                                ELSE IF \/ active_decisions[decision_id].votes = <<>>
                                        \/ active_decisions[decision_id].voting_options = <<>>
                                     THEN "None" ELSE "winner")
       ELSE /\ UNCHANGED active_decisions
            /\ last' = Call("calculate_winner", decision_id, "", "None")
    /\ status' = <<>>
    /\ UNCHANGED <<now, completed_decisions, threads>>

GetStatus(decision_id) ==
    /\ status' = get_decision_status(decision_id)
    /\ last' = Call("get_status", decision_id, "",
                    IF get_decision_status(decision_id) = <<>> THEN "None" ELSE "snapshot")
    /\ UNCHANGED <<now, active_decisions, completed_decisions, threads>>

----------------------------------------------------------------------------
(* Sequential execution of one decision: every call runs to its end before  *)
(* the next one starts, the clock stands still, and no decision is          *)
(* triggered once one was finalized.                                        *)

Threads == {"t1", "t2"}

EmptyStore == [d \in {} |-> 0]

Init ==
    /\ now = 0
    /\ active_decisions = EmptyStore
    /\ completed_decisions = <<>>
    /\ last = Call("init", NoId, "", "None")
    /\ status = <<>>
    /\ threads = [t \in Threads |-> Idle]

TheConflictType == "architecture_decision"

TheId == DecisionId(0, TheConflictType)

Trigger ==
    \E pa \in ParticipantLists :
        /\ completed_decisions = <<>>
        /\ trigger_democratic_decision(TheConflictType, pa)

AdvancePhase == \E ph \in VotingPhase : advance_phase(TheId, ph)

SubmitProposal ==
    \E a \in AgentNames, p \in ProposalTexts, r \in ReasoningTexts :
        add_agent_proposal(TheId, a, p, r)

SynthesizeOptions == \E o \in OptionLists : synthesize_options(TheId, o)

SubmitVote ==
    \E a \in AgentNames, b \in Ballots, r \in ReasoningTexts :
        submit_agent_vote(TheId, a, b, r)

Finalize == \E t \in FinalTexts : finalize_decision(TheId, t)

Status == GetStatus(TheId)

Next ==
    \/ Trigger
    \/ AdvancePhase
    \/ SubmitProposal
    \/ SynthesizeOptions
    \/ SubmitVote
    \/ Finalize
    \/ Status

Spec == Init /\ [][Next]_vars

----------------------------------------------------------------------------
(* Sequential execution of several decisions while the clock advances:      *)
(* decisions of one participant, at most MaxDecisions records in active and *)
(* completed storage together.                                              *)

Seconds == 0..MaxClock

AllIds == {DecisionId(s, TheConflictType) : s \in Seconds}

SoloParticipants == {<<"A">>}

SoloAgents == {"A"}

SoloOptionLists == {<<OptionData(1)>>}

SoloBallots == {<<"option_1">>}

NumRecords == Cardinality(DOMAIN active_decisions) + Len(completed_decisions)

TriggerIds ==
    \E pa \in SoloParticipants :
        /\ \/ NumRecords < MaxDecisions
           \/ DecisionId(now, TheConflictType) \in DOMAIN active_decisions
        /\ trigger_democratic_decision(TheConflictType, pa)

AdvancePhaseIds == \E d \in AllIds, ph \in VotingPhase : advance_phase(d, ph)

SubmitProposalIds ==
    \E d \in AllIds, a \in SoloAgents, p \in ProposalTexts, r \in ReasoningTexts :
        add_agent_proposal(d, a, p, r)

SynthesizeOptionsIds == \E d \in AllIds, o \in SoloOptionLists : synthesize_options(d, o)

SubmitVoteIds ==
    \E d \in AllIds, a \in SoloAgents, b \in SoloBallots, r \in ReasoningTexts :
        submit_agent_vote(d, a, b, r)

FinalizeIds == \E d \in AllIds, t \in FinalTexts : finalize_decision(d, t)

StatusIds == \E d \in AllIds : GetStatus(d)

NextIds ==
    \/ Tick
    \/ TriggerIds
    \/ AdvancePhaseIds
    \/ SubmitProposalIds
    \/ SynthesizeOptionsIds
    \/ SubmitVoteIds
    \/ FinalizeIds
    \/ StatusIds

SpecIds == Init /\ [][NextIds]_vars

\* The same engine with every decision left in active storage: no
\* finalize_decision is called, so completed storage stays empty.
NextActive ==
    \/ Tick
    \/ TriggerIds
    \/ AdvancePhaseIds
    \/ SubmitProposalIds
    \/ SynthesizeOptionsIds
    \/ SubmitVoteIds
    \/ StatusIds

SpecActive == Init /\ [][NextActive]_vars

\* The engine without synthesis and votes: decisions are triggered, collect
\* proposals in whatever phase they are put, and are finalized.
NextFinalized ==
    \/ Tick
    \/ TriggerIds
    \/ AdvancePhaseIds
    \/ SubmitProposalIds
    \/ FinalizeIds
    \/ StatusIds

SpecFinalized == Init /\ [][NextFinalized]_vars

----------------------------------------------------------------------------
(* One decision started through the tool: TriggerDemocraticDecisionTool is  *)
(* given conflict_type as a string and any list of participants.  No        *)
(* decision is started once one was finalized.                              *)

\* conflict_type strings handed to the tool: an enum value and another string
ToolConflictTypes == {"architecture_decision", "code_style"}

ToolParticipantLists == {<<>>, <<"A">>, <<"A", "B">>}

TriggerTool ==
    \E ct \in ToolConflictTypes, pa \in ToolParticipantLists :
        /\ completed_decisions = <<>> \/ TriggerToolRejects(ct, pa)
        /\ TriggerDemocraticDecisionTool_run(ct, pa)

NextTools ==
    \/ TriggerTool
    \/ AdvancePhase
    \/ SubmitProposal
    \/ Finalize
    \/ Status

SpecTools == Init /\ [][NextTools]_vars

----------------------------------------------------------------------------
(* Concurrent submissions.  The engine takes no lock, so a thread running   *)
(* add_agent_proposal or submit_agent_vote can be preempted between its     *)
(* checks, its append and its threshold check.  The other operations run    *)
(* here only while no submission is in flight, so the record a thread holds *)
(* stays the record stored under its decision_id.                           *)

InFlight(pc, decision_id, agent_name, arg) ==
    [pc |-> pc, decision_id |-> decision_id, agent_name |-> agent_name, arg |-> arg]

ConcParticipants == {<<"A", "B">>}

ConcBallots == {<<>>, <<"option_1">>}

\* add_agent_proposal up to the duplicate check
ProposalCheck(t, decision_id, agent_name, proposal) ==
    /\ threads[t].pc = "idle"
    /\ IF add_agent_proposal_accepts(decision_id, agent_name)
       THEN /\ threads' = [threads EXCEPT ![t] =
                  InFlight("proposal_append", decision_id, agent_name, <<proposal>>)]
            /\ UNCHANGED last
       ELSE /\ last' = Call("submit_proposal", decision_id, agent_name, "False")
            /\ UNCHANGED threads
    /\ status' = <<>>
    /\ UNCHANGED <<now, active_decisions, completed_decisions>>

\* add_agent_proposal from the construction of the AgentProposal to return True
ProposalAppend(t) ==
    /\ threads[t].pc = "proposal_append"
    /\ active_decisions' =
          [active_decisions EXCEPT ![threads[t].decision_id] =
              WithProposal(@, threads[t].agent_name, threads[t].arg[1], "because")]
    /\ last' = Call("submit_proposal", threads[t].decision_id, threads[t].agent_name, "True")
    /\ threads' = [threads EXCEPT ![t] = Idle]
    /\ status' = <<>>
    /\ UNCHANGED <<now, completed_decisions>>

\* submit_agent_vote up to the validation of the option ids
VoteCheck(t, decision_id, agent_name, ranked_option_ids) ==
    /\ threads[t].pc = "idle"
    /\ IF submit_agent_vote_accepts(decision_id, agent_name, ranked_option_ids)
       THEN /\ threads' = [threads EXCEPT ![t] =
                  InFlight("vote_append", decision_id, agent_name, ranked_option_ids)]
            /\ UNCHANGED last
       ELSE /\ last' = Call("submit_vote", decision_id, agent_name, "False")
            /\ UNCHANGED threads
    /\ status' = <<>>
    /\ UNCHANGED <<now, active_decisions, completed_decisions>>

\* submit_agent_vote from the construction of the AgentVote to the append
VoteAppend(t) ==
    /\ threads[t].pc = "vote_append"
    /\ active_decisions' =
          [active_decisions EXCEPT ![threads[t].decision_id] =
              WithVote(@, threads[t].agent_name, threads[t].arg, "because")]
    /\ threads' = [threads EXCEPT ![t].pc = "vote_threshold"]
    /\ status' = <<>>
    /\ UNCHANGED <<now, completed_decisions, last>>

\* submit_agent_vote from the threshold check to its end
VoteThreshold(t) ==
    /\ threads[t].pc = "vote_threshold"
    /\ LET end == AfterVote(active_decisions[threads[t].decision_id])
       IN  /\ active_decisions' =
                 [active_decisions EXCEPT ![threads[t].decision_id] = end.decision]
           /\ last' = Call("submit_vote", threads[t].decision_id, threads[t].agent_name,
                           IF end.raised THEN "KeyError" ELSE "True")
    /\ threads' = [threads EXCEPT ![t] = Idle]
    /\ status' = <<>>
    /\ UNCHANGED <<now, completed_decisions>>

TriggerConc ==
    \E pa \in ConcParticipants :
        /\ AllIdle
        /\ completed_decisions = <<>>
        /\ trigger_democratic_decision(TheConflictType, pa)

AdvancePhaseConc ==
    \E ph \in {"idea_collection", "synthesis", "ranked_voting"} :
        AllIdle /\ advance_phase(TheId, ph)

SynthesizeOptionsConc ==
    \E o \in SoloOptionLists : AllIdle /\ synthesize_options(TheId, o)

StartProposal ==
    \E t \in Threads, a \in AgentNames, p \in ProposalTexts : ProposalCheck(t, TheId, a, p)

FinishProposal == \E t \in Threads : ProposalAppend(t)

StartVote ==
    \E t \in Threads, a \in AgentNames, b \in ConcBallots : VoteCheck(t, TheId, a, b)

AppendVote == \E t \in Threads : VoteAppend(t)

FinishVote == \E t \in Threads : VoteThreshold(t)

NextConc ==
    \/ TriggerConc
    \/ AdvancePhaseConc
    \/ SynthesizeOptionsConc
    \/ StartProposal
    \/ FinishProposal
    \/ StartVote
    \/ AppendVote
    \/ FinishVote

SpecConc == Init /\ [][NextConc]_vars

----------------------------------------------------------------------------
(* The Borda tally as a function of a decision's options and votes: a       *)
(* decision in RANKED_VOTING with some of its participants' votes recorded, *)
(* on which calculate_ranked_choice_winner is called directly.              *)

\* the participants of the tallied decision and those of them who have voted
TallyParticipants == <<"A", "B", "C", "D">>

TallyVoters == <<"A", "B">>

\* every ranked_option_ids list submit_agent_vote accepts for n options: ids
\* of current options, in any order, repeated or not, up to MaxTallyRank long
TallyBallots(n) == SeqsUpTo({OptionId(i) : i \in 1..n}, MaxTallyRank)

\* the three ballots of the module's own test run: a cyclic permutation
CyclicBallots ==
    <<<<"option_1", "option_2", "option_3">>,
      <<"option_2", "option_3", "option_1">>,
      <<"option_3", "option_1", "option_2">>>>

CyclicVoters == <<"A", "B", "C">>

\* a decision in RANKED_VOTING with n options and the given voters' ballots recorded
TallyDecision(n, voters, ballots) ==
    [WithOptions(DemocraticDecision(TheId, TheConflictType, TallyParticipants),
                 [i \in 1..n |-> OptionData(i)])
        EXCEPT !.current_phase = "ranked_voting",
               !.votes = [v \in DOMAIN ballots |-> AgentVote(voters[v], ballots[v], "because")]]

InitTally ==
    /\ now = 0
    /\ completed_decisions = <<>>
    /\ last = Call("init", NoId, "", "None")
    /\ status = <<>>
    /\ threads = [t \in Threads |-> Idle]
    /\ \/ \E n \in 0..MaxTallyOptions, k \in 0..Len(TallyVoters) :
             \E ballots \in [1..k -> TallyBallots(n)] :
                 active_decisions = Put(EmptyStore, TheId, TallyDecision(n, TallyVoters, ballots))
       \/ active_decisions = Put(EmptyStore, TheId, TallyDecision(3, CyclicVoters, CyclicBallots))

CalculateWinner ==
    /\ active_decisions[TheId].tally_runs < MaxTallies
    /\ calculate_winner(TheId)

NextTally == CalculateWinner

SpecTally == InitTally /\ [][NextTally]_vars

----------------------------------------------------------------------------
(* ProposalSynthesisLogic (src/tools/synthesis_tools.py): clustering the     *)
(* proposals of a status snapshot by keyword and turning the clusters into  *)
(* the option dictionaries handed to synthesize_options.                    *)

UpperCaseLetters == "ABCDEFGHIJKLMNOPQRSTUVWXYZ"

LowerCaseLetters == "abcdefghijklmnopqrstuvwxyz"

\* the lower-case letter of every upper-case letter
LowerOf ==
    [c \in {SubSeq(UpperCaseLetters, i, i) : i \in 1..Len(UpperCaseLetters)} |->
        LET i == CHOOSE i \in 1..Len(UpperCaseLetters) : SubSeq(UpperCaseLetters, i, i) = c
        IN  SubSeq(LowerCaseLetters, i, i)]

\* str.lower() on one character
LowerChar(c) == IF c \in DOMAIN LowerOf THEN LowerOf[c] ELSE c

\* str.lower()
RECURSIVE lower(_)
lower(text) ==
    IF text = "" THEN ""
    ELSE LowerChar(SubSeq(text, 1, 1)) \o lower(SubSeq(text, 2, Len(text)))

\* word in text: word occurs in text as a substring
Contains(text, word) ==
    \E i \in 1..(Len(text) - Len(word) + 1) : SubSeq(text, i, i + Len(word) - 1) = word

\* any(word in text for word in words)
AnyWordIn(text, words) == \E w \in DOMAIN words : Contains(text, words[w])

MetaWords == <<"meta", "documentation", "process", "showcase", "creation">>

OverviewWords == <<"about", "overview", "general", "mission", "contact">>

TechnicalWords == <<"technical", "architecture", "code", "development">>

\* the if/elif chain testing the technical keywords before the overview keywords
primary_theme_technical_first(text) ==
    IF AnyWordIn(text, MetaWords) THEN "meta_documentation"
    ELSE IF AnyWordIn(text, TechnicalWords) THEN "technical_focus"
    ELSE IF AnyWordIn(text, OverviewWords) THEN "overview_approach"
    ELSE "general"

\* the if/elif chain that names a proposal's theme from its lower-cased text
primary_theme(text) ==
    IF AnyWordIn(text, MetaWords) THEN "meta_documentation"
    ELSE IF AnyWordIn(text, OverviewWords) THEN "overview_approach"
    ELSE IF AnyWordIn(text, TechnicalWords) THEN "technical_focus"
    ELSE "general"

\* (proposal["proposal"] + " " + proposal["reasoning"]).lower()
ProposalText(proposal) == lower(proposal.proposal \o " " \o proposal.reasoning)

ProposalCluster(theme, description, contributing_agents, merged_reasoning, representative_proposal) ==
    [theme |-> theme, description |-> description,
     contributing_agents |-> contributing_agents,
     merged_reasoning |-> merged_reasoning,
     representative_proposal |-> representative_proposal]

\* the position in clusters (a dict in insertion order) of the cluster of theme; 0 if none
ClusterOf(clusters, theme) ==
    IF \E k \in DOMAIN clusters : clusters[k].theme = theme
    THEN CHOOSE k \in DOMAIN clusters : clusters[k].theme = theme
    ELSE 0

\* the loop body adding the proposing agent to every cluster found so far
AddToCluster_joins_all(clusters, proposal) ==
    LET theme == primary_theme(ProposalText(proposal))
        known == IF ClusterOf(clusters, theme) = 0
                 THEN Append(clusters, ProposalCluster(theme, "", <<>>, "", ""))
                 ELSE clusters
    IN  [c \in DOMAIN known |->
            [known[c] EXCEPT !.contributing_agents = Append(@, proposal.agent_name),
                             !.representative_proposal =
                                 IF @ = "" THEN proposal.proposal ELSE @]]

\* the body of the loop of cluster_similar_proposals for one proposal
AddToCluster(clusters, proposal) ==
    LET theme == primary_theme(ProposalText(proposal))
        known == IF ClusterOf(clusters, theme) = 0
                 THEN Append(clusters, ProposalCluster(theme, "", <<>>, "", ""))
                 ELSE clusters
        k == ClusterOf(known, theme)
        joined == [known[k] EXCEPT !.contributing_agents = Append(@, proposal.agent_name)]
    IN  [known EXCEPT ![k] =
            IF joined.representative_proposal = ""
            THEN [joined EXCEPT !.representative_proposal = proposal.proposal,
                                !.merged_reasoning = proposal.reasoning]
            ELSE [joined EXCEPT !.merged_reasoning =
                                    @ \o " | " \o proposal.agent_name \o ": "
                                      \o proposal.reasoning]]

RECURSIVE ClustersFrom(_, _, _)
ClustersFrom(proposals, position, clusters) ==
    IF position > Len(proposals) THEN clusters
    ELSE ClustersFrom(proposals, position + 1, AddToCluster(clusters, proposals[position]))

\* cluster_similar_proposals: list(clusters.values()), in the order in which
\* the themes were first met
cluster_similar_proposals(proposals) == ClustersFrom(proposals, 1, <<>>)

\* sorted(clusters, key=len(contributing_agents), reverse=True) sorting
\* clusters of equal size in reverse order
SortedClusters_reverses_ties(clusters) ==
    LET size(i) == Len(clusters[i].contributing_agents)
        place(i) == 1 + Cardinality({j \in DOMAIN clusters : size(j) > size(i)})
                      + Cardinality({j \in DOMAIN clusters : size(j) = size(i) /\ j > i})
    IN  [k \in DOMAIN clusters |->
            clusters[CHOOSE i \in DOMAIN clusters : place(i) = k]]

\* sorted(clusters, key=lambda c: len(c.contributing_agents), reverse=True):
\* by size descending, clusters of equal size in their original order
SortedClusters(clusters) ==
    LET size(i) == Len(clusters[i].contributing_agents)
        place(i) == 1 + Cardinality({j \in DOMAIN clusters : size(j) > size(i)})
                      + Cardinality({j \in DOMAIN clusters : size(j) = size(i) /\ j < i})
    IN  [k \in DOMAIN clusters |->
            clusters[CHOOSE i \in DOMAIN clusters : place(i) = k]]

Max(a, b) == IF a > b THEN a ELSE b

\* items[:stop] as Python slices: a negative stop counts from the end
SliceTo(items, stop) ==
    SubSeq(items, 1, IF stop >= 0 THEN Min(stop, Len(items))
                     ELSE Max(0, Len(items) + stop))

\* ', '.join(names)
RECURSIVE JoinNames(_)
JoinNames(names) ==
    IF names = <<>> THEN ""
    ELSE IF Len(names) = 1 THEN names[1]
    ELSE names[1] \o ", " \o JoinNames(Tail(names))

\* theme_titles.get(cluster.theme, f"{cluster.theme.title()} Approach"): every
\* theme cluster_similar_proposals assigns is a key of theme_titles
ThemeTitle(theme) ==
    CASE theme = "meta_documentation" -> "Meta-Documentation Approach"
      [] theme = "overview_approach" -> "General Overview Approach"
      [] theme = "technical_focus" -> "Technical-Focused Approach"
      [] theme = "collaboration" -> "Collaboration-Centered Approach"
      [] theme = "general" -> "Hybrid Approach"

generate_option_title(cluster) ==
    IF Len(cluster.contributing_agents) > 1
    THEN ThemeTitle(cluster.theme) \o " (Team Consensus)"
    ELSE ThemeTitle(cluster.theme) \o " (" \o cluster.contributing_agents[1] \o " Proposal)"

generate_option_description(cluster) ==
    IF Len(cluster.contributing_agents) > 1
    THEN cluster.representative_proposal
            \o "\n\nSupported by: " \o JoinNames(cluster.contributing_agents)
            \o "\nCombined reasoning: " \o cluster.merged_reasoning
    ELSE cluster.representative_proposal
            \o "\n\nProposed by: " \o cluster.contributing_agents[1]
            \o "\nReasoning: " \o cluster.merged_reasoning

\* the option dictionary generate_voting_options builds from one cluster
OptionOf(cluster) ==
    [title |-> generate_option_title(cluster),
     description |-> generate_option_description(cluster),
     source_proposals |-> cluster.contributing_agents,
     rationale |-> cluster.merged_reasoning]

generate_voting_options(clusters, max_options) ==
    LET top == SliceTo(SortedClusters(clusters), max_options)
    IN  [i \in DOMAIN top |-> OptionOf(top[i])]

----------------------------------------------------------------------------
(* The tools agents call: SubmitProposalTool, SubmitVoteTool                 *)
(* (src/tools/team_voting_tool.py) and SynthesizeOptionsTool                 *)
(* (src/tools/synthesis_tools.py), each one whole _run on the engine.        *)

\* what SubmitProposalTool._run reports after add_agent_proposal returned
\* False, read from the status it queries then
ProposalRejection(snapshot, agent_name) ==
    IF snapshot = <<>> THEN "not_found"
    ELSE IF snapshot[1].current_phase # "idea_collection" THEN "wrong_phase"
    ELSE IF agent_name \notin Range(snapshot[1].participating_agents) THEN "not_participating"
    ELSE IF \E p \in DOMAIN snapshot[1].proposals :
                snapshot[1].proposals[p].agent_name = agent_name
    THEN "already_proposed"
    ELSE "unknown_reason"

\* what SubmitVoteTool._run reports after submit_agent_vote returned False
VoteRejection(snapshot, agent_name) ==
    IF snapshot = <<>> THEN "not_found"
    ELSE IF snapshot[1].current_phase # "ranked_voting" THEN "wrong_phase"
    ELSE IF agent_name \notin Range(snapshot[1].participating_agents) THEN "not_participating"
    ELSE IF \E v \in DOMAIN snapshot[1].votes : snapshot[1].votes[v].agent_name = agent_name
    THEN "already_voted"
    ELSE "unknown_reason"

SubmitProposalTool_run(decision_id, agent_name, proposal, reasoning) ==
    /\ IF add_agent_proposal_accepts(decision_id, agent_name)
       THEN /\ active_decisions' =
                  [active_decisions EXCEPT ![decision_id] =
                      WithProposal(@, agent_name, proposal, reasoning)]
            /\ last' = Call("submit_proposal_tool", decision_id, agent_name, "submitted")
            /\ status' = <<>>
       ELSE /\ UNCHANGED active_decisions
            /\ last' = Call("submit_proposal_tool", decision_id, agent_name,
                            ProposalRejection(get_decision_status(decision_id), agent_name))
            /\ status' = get_decision_status(decision_id)
    /\ UNCHANGED <<now, completed_decisions, threads>>

SubmitVoteTool_run(decision_id, agent_name, ranked_options, reasoning) ==
    /\ IF submit_agent_vote_accepts(decision_id, agent_name, ranked_options)
       THEN LET end == AfterVote(WithVote(active_decisions[decision_id], agent_name,
                                          ranked_options, reasoning))
            IN  /\ active_decisions' =
                      [active_decisions EXCEPT ![decision_id] = end.decision]
                /\ last' = Call("submit_vote_tool", decision_id, agent_name,
                                IF end.raised THEN "KeyError" ELSE "submitted")
                /\ status' = <<>>
       ELSE /\ UNCHANGED active_decisions
            /\ last' = Call("submit_vote_tool", decision_id, agent_name,
                            VoteRejection(get_decision_status(decision_id), agent_name))
            /\ status' = get_decision_status(decision_id)
    /\ UNCHANGED <<now, completed_decisions, threads>>

\* SynthesizeOptionsTool._run: status, clustering, option generation, then
\* advance_phase(SYNTHESIS), synthesize_options and advance_phase(RANKED_VOTING)
SynthesizeOptionsTool_run(decision_id, max_options) ==
    LET snapshot == get_decision_status(decision_id)
        proposals == snapshot[1].proposals
        clusters == cluster_similar_proposals(proposals)
        voting_options == generate_voting_options(clusters, max_options)
        outcome == IF snapshot = <<>> THEN "not_found"
                   ELSE IF proposals = <<>> THEN "no_proposals"
                   ELSE IF clusters = <<>> THEN "no_clusters"
                   ELSE IF voting_options = <<>> THEN "no_options"
                   ELSE IF decision_id \notin DOMAIN active_decisions THEN "not_updated"
                   ELSE "success"
    IN  /\ IF outcome = "success"
           THEN active_decisions' =
                    [active_decisions EXCEPT ![decision_id] =
                        [WithOptions([@ EXCEPT !.current_phase = "synthesis"], voting_options)
                            EXCEPT !.current_phase = "ranked_voting"]]
           ELSE UNCHANGED active_decisions
        /\ last' = Call("synthesize_tool", decision_id, "", outcome)
        /\ status' = snapshot
        /\ UNCHANGED <<now, completed_decisions, threads>>

----------------------------------------------------------------------------
(* Sequential execution of one decision driven through the tools: started   *)
(* by the trigger tool, proposals and votes submitted through their tools,  *)
(* options synthesized by SynthesizeOptionsTool from the proposals.         *)

\* <<proposal, reasoning>> pairs agents submit: one of theme meta_documentation
\* and one of theme general
WorkflowProposals == {<<"Meta plan", "why">>, <<"plan", "why">>}

\* max_options handed to SynthesizeOptionsTool: the default and a smaller one
WorkflowMaxOptions == {1, 4}

SubmitProposalTool ==
    \E a \in AgentNames, p \in WorkflowProposals :
        SubmitProposalTool_run(TheId, a, p[1], p[2])

SubmitVoteTool ==
    \E a \in AgentNames, b \in Ballots, r \in ReasoningTexts :
        SubmitVoteTool_run(TheId, a, b, r)

SynthesizeTool == \E m \in WorkflowMaxOptions : SynthesizeOptionsTool_run(TheId, m)

NextWorkflow ==
    \/ TriggerTool
    \/ AdvancePhase
    \/ SubmitProposalTool
    \/ SynthesizeTool
    \/ SubmitVoteTool
    \/ Finalize
    \/ Status

SpecWorkflow == Init /\ [][NextWorkflow]_vars

----------------------------------------------------------------------------
(* Two decisions in parallel.  Two conflict types triggered in the same      *)
(* second give two decision_ids; each thread drives the decision of its own *)
(* id, one call at a time, and the steps of the two threads interleave,     *)
(* the submissions at the grain of their check, append and threshold steps. *)

ParConflictTypes == [t1 |-> "architecture_decision", t2 |-> "agent_disagreement"]

\* the decision_id thread t works on
ParId(t) == DecisionId(0, ParConflictTypes[t])

ParIds == {ParId(t) : t \in Threads}

ParFinalTexts == {"Ship it"}

TriggerPar ==
    \E t \in Threads, pa \in SoloParticipants :
        /\ threads[t].pc = "idle"
        /\ ParId(t) \notin CompletedIds
        /\ trigger_democratic_decision(ParConflictTypes[t], pa)

AdvancePhasePar ==
    \E t \in Threads, ph \in {"idea_collection", "synthesis", "ranked_voting"} :
        threads[t].pc = "idle" /\ advance_phase(ParId(t), ph)

SynthesizeOptionsPar ==
    \E t \in Threads, o \in SoloOptionLists :
        threads[t].pc = "idle" /\ synthesize_options(ParId(t), o)

FinalizePar ==
    \E t \in Threads, text \in ParFinalTexts :
        threads[t].pc = "idle" /\ finalize_decision(ParId(t), text)

StartProposalPar ==
    \E t \in Threads, a \in SoloAgents, p \in ProposalTexts : ProposalCheck(t, ParId(t), a, p)

StartVotePar ==
    \E t \in Threads, a \in SoloAgents, b \in SoloBallots : VoteCheck(t, ParId(t), a, b)

NextPar ==
    \/ TriggerPar
    \/ AdvancePhasePar
    \/ SynthesizeOptionsPar
    \/ FinalizePar
    \/ StartProposalPar
    \/ FinishProposal
    \/ StartVotePar
    \/ AppendVote
    \/ FinishVote

SpecPar == Init /\ [][NextPar]_vars

----------------------------------------------------------------------------
(* Clustering and option synthesis as functions of a decision's proposals:  *)
(* a decision in IDEA_COLLECTION with proposals recorded, whose status is   *)
(* handed to cluster_similar_proposals, and the clusters to                 *)
(* generate_voting_options.                                                 *)

\* the agents of the decision, in the order in which they propose
ClusterAgents == <<"A", "B", "C", "D", "E", "F">>

\* <<proposal, reasoning>> pairs: with and without keywords, keywords of two
\* groups, in upper case, in the reasoning only, and empty proposal texts
ClusterInputs ==
    {<<"", "">>, <<"", "code">>, <<"Meta plan", "">>, <<"About code", "why">>,
     <<"plan", "Showcase code">>, <<"plan", "why">>}

\* a decision in IDEA_COLLECTION in which the first agents have proposed texts
ClusterDecision(texts) ==
    [DemocraticDecision(TheId, TheConflictType, ClusterAgents)
        EXCEPT !.current_phase = "idea_collection",
               !.proposals = [p \in DOMAIN texts |->
                                 AgentProposal(ClusterAgents[p], texts[p][1], texts[p][2])]]

InitSynthesis ==
    /\ now = 0
    /\ completed_decisions = <<>>
    /\ last = Call("init", NoId, "", "None")
    /\ status = <<>>
    /\ threads = [t \in Threads |-> Idle]
    /\ \E k \in 0..MaxClusterProposals :
          \E texts \in [1..k -> ClusterInputs] :
              active_decisions = Put(EmptyStore, TheId, ClusterDecision(texts))

\* status = get_decision_status(decision_id); cluster_similar_proposals(status["proposals"])
ClusterProposals ==
    /\ last.op = "init"
    /\ status' = get_decision_status(TheId)
    /\ last' = Call("cluster_similar_proposals", TheId, "",
                    cluster_similar_proposals(get_decision_status(TheId)[1].proposals))
    /\ UNCHANGED <<now, active_decisions, completed_decisions, threads>>

\* generate_voting_options(clusters, max_options) on the clusters just returned
GenerateOptions ==
    \E max_options \in 0..MaxOptionsAsked :
        /\ last.op = "cluster_similar_proposals"
        /\ last' = Call("generate_voting_options", TheId, "",
                        generate_voting_options(last.ret, max_options))
        /\ UNCHANGED <<now, active_decisions, completed_decisions, status, threads>>

NextSynthesis == ClusterProposals \/ GenerateOptions

SpecSynthesis == InitSynthesis /\ [][NextSynthesis]_vars

----------------------------------------------------------------------------
(* One decision taken through the workflow in its order: trigger, the phases *)
(* up to SYNTHESIS, one synthesize_options call with at least one option,    *)
(* RANKED_VOTING, and then votes only, with ranked_option_ids lists up to    *)
(* MaxTallyRank long over the ids option_1 .. option_MaxTallyOptions.        *)

BallotLists == SeqsUpTo({OptionId(i) : i \in 1..MaxTallyOptions}, MaxTallyRank)

TriggerBallots ==
    \E pa \in ParticipantLists :
        /\ active_decisions = EmptyStore
        /\ trigger_democratic_decision(TheConflictType, pa)

\* the phase the workflow enters after each phase before RANKED_VOTING
PhaseAfter ==
    [context_loading |-> "idea_collection", idea_collection |-> "synthesis",
     synthesis |-> "ranked_voting"]

AdvanceInOrder ==
    /\ TheId \in DOMAIN active_decisions
    /\ active_decisions[TheId].current_phase \in DOMAIN PhaseAfter
    /\ active_decisions[TheId].current_phase = "synthesis" =>
           active_decisions[TheId].voting_options # <<>>
    /\ advance_phase(TheId, PhaseAfter[active_decisions[TheId].current_phase])

SynthesizeBallots ==
    \E n \in 1..MaxTallyOptions :
        /\ TheId \in DOMAIN active_decisions
        /\ active_decisions[TheId].current_phase = "synthesis"
        /\ active_decisions[TheId].voting_options = <<>>
        /\ synthesize_options(TheId, [i \in 1..n |-> OptionData(i)])

CastBallot ==
    \E a \in AgentNames, b \in BallotLists, r \in ReasoningTexts :
        /\ TheId \in DOMAIN active_decisions
        /\ active_decisions[TheId].current_phase = "ranked_voting"
        /\ submit_agent_vote(TheId, a, b, r)

NextBallots ==
    \/ TriggerBallots
    \/ AdvanceInOrder
    \/ SynthesizeBallots
    \/ CastBallot

SpecBallots == Init /\ [][NextBallots]_vars

----------------------------------------------------------------------------
(* Properties *)

AllDecisions == Range(active_decisions) \cup Range(completed_decisions)

VotersDistinct(decision) ==
    \A i, j \in DOMAIN decision.votes :
        i # j => decision.votes[i].agent_name # decision.votes[j].agent_name

ProposersDistinct(decision) ==
    \A i, j \in DOMAIN decision.proposals :
        i # j => decision.proposals[i].agent_name # decision.proposals[j].agent_name

\* C1: in every reachable state of sequential execution, for every decision,
\* no two recorded votes share an agent_name and every option id in a recorded
\* vote's ranked_options is the option_id of one of the current voting_options.
C1_VotesUniqueAndReferToOptions ==
    \A decision \in AllDecisions :
        /\ VotersDistinct(decision)
        /\ \A v \in DOMAIN decision.votes :
              Range(decision.votes[v].ranked_options) \subseteq valid_option_ids(decision)

\* C2: in every reachable state, for every decision, no two proposals share an
\* agent_name, every proposal's agent_name is a participating agent, and there
\* are at most as many proposals as participating agents.
C2_ProposalsUniquePerParticipant ==
    \A decision \in AllDecisions :
        /\ ProposersDistinct(decision)
        /\ \A p \in DOMAIN decision.proposals :
              decision.proposals[p].agent_name \in Range(decision.participating_agents)
        /\ Len(decision.proposals) <= Len(decision.participating_agents)

\* every participant of a two-agent decision has proposed and a further
\* proposal by one of them was just rejected
C2_Witness ==
    /\ TheId \in DOMAIN active_decisions
    /\ active_decisions[TheId].current_phase = "idea_collection"
    /\ Len(active_decisions[TheId].proposals) = 2
    /\ last = Call("submit_proposal", TheId, "B", "False")

\* C3: every trigger returns a decision_id that no decision in active or
\* completed storage carries, so trigger leaves every active decision in place.
C3_TriggerReturnsFreshId ==
    [][\A pa \in SoloParticipants :
          trigger_democratic_decision(TheConflictType, pa) =>
              /\ last'.decision_id \notin ActiveIds \cup CompletedIds
              /\ \A d \in ActiveIds :
                    d \in DOMAIN active_decisions' /\ active_decisions'[d] = active_decisions[d]]_vars

\* the first record of completed storage that carries decision_id
FirstCompleted(decision_id) ==
    completed_decisions[
        CHOOSE i \in DOMAIN completed_decisions :
            /\ completed_decisions[i].decision_id = decision_id
            /\ \A j \in 1..(i - 1) : completed_decisions[j].decision_id # decision_id]

\* C4: once finalize(d) succeeded, every get_status(d) returns the finalized
\* decision's data (phase COMMITMENT, end_time set) and every submit_proposal,
\* submit_vote and synthesize_options naming d returns false.
C4_FinalizedStaysFinalized ==
    \A d \in CompletedIds :
        /\ (last.op = "get_status" /\ last.decision_id = d) =>
              /\ status = <<to_dict(FirstCompleted(d))>>
              /\ status[1].current_phase = "commitment"
              /\ status[1].end_time # <<>>
        /\ (last.op \in {"submit_proposal", "submit_vote", "synthesize_options"}
              /\ last.decision_id = d) => last.ret = "False"

\* the stored winner is one of the decision's options and the text names its title
WinnerStored(decision) ==
    \E i \in DOMAIN decision.voting_options :
        /\ decision.winning_option_id = decision.voting_options[i].option_id
        /\ decision.winning_option = <<decision.voting_options[i]>>
        /\ decision.final_decision.kind = "tally"
        /\ decision.final_decision.winner_title = decision.voting_options[i].title

\* C5: whenever a submit_vote is accepted and the number of recorded votes
\* thereby equals the number of participating agents, then right after the call
\* winning_option_id is the id of one of the voting options, winning_option is
\* that option and final_decision is a text containing its title.
C5_LastVoteStoresWinner ==
    [][\A a \in AgentNames, b \in Ballots, r \in ReasoningTexts :
          (/\ submit_agent_vote(TheId, a, b, r)
           /\ last'.ret # "False"
           /\ Len(active_decisions'[TheId].votes)
                 = Len(active_decisions'[TheId].participating_agents))
          => WinnerStored(active_decisions'[TheId])]_vars

\* the step is a call of op: every operation records its call in last, and
\* Tick, which records none, is the only step that moves the clock
CallOf(op) == last'.op = op /\ now' = now

\* C6: once the tally has run for a decision, a submit_vote for it by a
\* non-participant or by an agent that has already voted returns false and
\* leaves votes, winner and final_decision (the whole record) as they were.
C6_NoVoteAfterTally ==
    [][(/\ CallOf("submit_vote")
        /\ TheId \in DOMAIN active_decisions
        /\ active_decisions[TheId].tally_runs > 0
        /\ \/ last'.agent_name \notin Range(active_decisions[TheId].participating_agents)
           \/ HasVoted(active_decisions[TheId], last'.agent_name))
       => /\ last'.ret = "False"
          /\ active_decisions' = active_decisions
          /\ completed_decisions' = completed_decisions]_vars

\* the tally stored a winner and a later vote was just rejected
C6_Witness ==
    /\ TheId \in DOMAIN active_decisions
    /\ active_decisions[TheId].tally_runs > 0
    /\ active_decisions[TheId].winning_option_id # ""
    /\ active_decisions[TheId].current_phase = "ranked_voting"
    /\ last.op = "submit_vote" /\ last.ret = "False"
    /\ \/ last.agent_name \notin Range(active_decisions[TheId].participating_agents)
       \/ HasVoted(active_decisions[TheId], last.agent_name)

\* C7: under concurrent submissions at most one proposal and at most one vote
\* is ever recorded for an agent.
C7_OnePerAgentUnderRaces ==
    \A decision \in AllDecisions : ProposersDistinct(decision) /\ VotersDistinct(decision)

\* C8: when the votes of distinct participants are submitted concurrently, the
\* tally is executed exactly once.
C8_TallyOnceUnderRaces ==
    \A decision \in AllDecisions :
        VotersDistinct(decision) =>
            /\ decision.tally_runs <= 1
            /\ (AllIdle /\ decision.votes # <<>> /\ AllVotesIn(decision))
                  => decision.tally_runs = 1

\* C9: every engine call ends by returning a value; none ends in an exception.
C9_NoCallRaises == last.ret \in {"id", "True", "False", "snapshot", "None"}

\* C10: a submit_proposal made while the decision is not active in
\* IDEA_COLLECTION returns false and leaves active and completed storage
\* unchanged, and a step that adds a proposal to a decision starts with that
\* decision active in IDEA_COLLECTION.
C10_ProposalOnlyInIdeaCollection ==
    [][/\ (/\ CallOf("submit_proposal")
            /\ ~(/\ last'.decision_id \in DOMAIN active_decisions
                  /\ active_decisions[last'.decision_id].current_phase = "idea_collection"))
          => /\ last'.ret = "False"
             /\ active_decisions' = active_decisions
             /\ completed_decisions' = completed_decisions
       /\ \A d \in DOMAIN active_decisions' :
            (/\ d \in DOMAIN active_decisions
             /\ Len(active_decisions'[d].proposals) > Len(active_decisions[d].proposals))
            => active_decisions[d].current_phase = "idea_collection"]_vars

\* a participant who has not proposed was just refused outside IDEA_COLLECTION,
\* while another decision is held as well
C10_Witness ==
    /\ last.op = "submit_proposal" /\ last.ret = "False"
    /\ last.decision_id \in DOMAIN active_decisions
    /\ active_decisions[last.decision_id].current_phase # "idea_collection"
    /\ last.agent_name \in Range(active_decisions[last.decision_id].participating_agents)
    /\ ~HasProposed(active_decisions[last.decision_id], last.agent_name)
    /\ NumRecords = 2

\* the conditions under which submit_vote is to be rejected
C11_MustReject(decision_id, agent_name, ranked_option_ids) ==
    \/ decision_id \notin DOMAIN active_decisions
    \/ active_decisions[decision_id].current_phase # "ranked_voting"
    \/ agent_name \notin Range(active_decisions[decision_id].participating_agents)
    \/ HasVoted(active_decisions[decision_id], agent_name)
    \/ \E i \in DOMAIN ranked_option_ids :
          ranked_option_ids[i] \notin valid_option_ids(active_decisions[decision_id])

\* C11: a submit_vote returns false and changes nothing whenever the decision
\* is not active, its phase is not RANKED_VOTING, the agent is no participant,
\* the agent has already voted or a ranked id is no option_id of the decision;
\* every other submit_vote returns true and appends exactly one vote.
C11_VoteRejectedOrAppended ==
    [][\A a \in AgentNames, b \in Ballots, r \in ReasoningTexts :
          submit_agent_vote(TheId, a, b, r) =>
              IF C11_MustReject(TheId, a, b)
              THEN /\ last'.ret = "False"
                   /\ active_decisions' = active_decisions
                   /\ completed_decisions' = completed_decisions
              ELSE /\ last'.ret = "True"
                   /\ active_decisions'[TheId].votes
                         = Append(active_decisions[TheId].votes, AgentVote(a, b, r))]_vars

\* voting_options holds exactly the entries of the input list, in input order:
\* the i-th entry is numbered option_i and carries the i-th input's fields
C12_HoldsExactly(voting_options, synthesized_options) ==
    /\ Len(voting_options) = Len(synthesized_options)
    /\ \A i \in DOMAIN voting_options :
          /\ voting_options[i].option_id = "option_" \o ToString(i)
          /\ \A key \in DOMAIN synthesized_options[i] :
                voting_options[i][key] = synthesized_options[i][key]

\* C12: synthesize_options replaces rather than appends: after a successful
\* call with the list L2, whatever an earlier call stored, voting_options has
\* exactly len(L2) entries, the i-th numbered option_i and carrying L2's i-th
\* title, description and source_proposals, and nothing else of the record
\* has changed.
C12_SynthesizeReplaces ==
    [][CallOf("synthesize_options") =>
          \A o \in OptionLists :
              (synthesize_options(TheId, o) /\ last'.ret = "True") =>
                  /\ C12_HoldsExactly(active_decisions'[TheId].voting_options, o)
                  /\ active_decisions'[TheId] =
                        [active_decisions[TheId] EXCEPT
                            !.voting_options = active_decisions'[TheId].voting_options]]_vars

\* a one-option list has just replaced a list that had an option_2, which a
\* recorded vote still names
C12_Witness ==
    /\ last = Call("synthesize_options", TheId, "", "True")
    /\ Len(active_decisions[TheId].voting_options) = 1
    /\ \E v \in DOMAIN active_decisions[TheId].votes :
          active_decisions[TheId].votes[v].ranked_options = <<"option_2">>

\* the decisions for which a direct tally has just returned a winner
Tallied ==
    {active_decisions[d] : d \in {d \in DOMAIN active_decisions :
                                     last = Call("calculate_winner", d, "", "winner")}}

\* the position in voting_options of the option whose id is winning_option_id
WinnerPosition(decision) ==
    CHOOSE i \in DOMAIN decision.voting_options :
        decision.voting_options[i].option_id = decision.winning_option_id

\* C13: after a tally the winner's Borda score is at least every other
\* option's score and every option before it in voting_options scores strictly
\* less (of several options with the maximal score the first one wins); for 3
\* options and the cyclic ballots every option scores 6 and option_1 wins.
C13_WinnerIsFirstMaximum ==
    \A decision \in Tallied :
        /\ decision.winning_option_id \in valid_option_ids(decision)
        /\ LET scores == option_scores(decision)
               w == WinnerPosition(decision)
           IN  /\ \A j \in DOMAIN scores : scores[j] <= scores[w]
               /\ \A j \in DOMAIN scores : j < w => scores[j] < scores[w]
               /\ decision.winning_option = <<decision.voting_options[w]>>
        /\ (/\ Len(decision.voting_options) = 3
            /\ [v \in DOMAIN decision.votes |-> decision.votes[v].ranked_options] = CyclicBallots)
           => /\ option_scores(decision) = <<6, 6, 6>>
              /\ decision.winning_option_id = "option_1"

\* the cyclic ballots were tallied: three options tie and the first one won
C13_Witness ==
    \E decision \in Tallied :
        /\ [v \in DOMAIN decision.votes |-> decision.votes[v].ranked_options] = CyclicBallots
        /\ Len(decision.voting_options) = 3
        /\ decision.winning_option_id = "option_1"
        /\ decision.final_decision.kind = "tally"

\* the sum of n - rank over a set of <<vote, rank>> pairs
RECURSIVE SumOfPoints(_, _)
SumOfPoints(hits, n) ==
    IF hits = {} THEN 0
    ELSE LET hit == CHOOSE h \in hits : TRUE
         IN  (n - hit[2]) + SumOfPoints(hits \ {hit}, n)

\* the Borda score of option_id: n - rank for every recorded vote and every
\* 0-based rank below n at which that vote's ranked_options holds option_id
BordaScore(decision, option_id) ==
    LET n == Len(decision.voting_options)
        hits == {h \in (DOMAIN decision.votes) \X (0..(n - 1)) :
                    /\ h[2] < Len(decision.votes[h[1]].ranked_options)
                    /\ decision.votes[h[1]].ranked_options[h[2] + 1] = option_id}
    IN  SumOfPoints(hits, n)

\* how often the line x occurs among the score lines
Occurrences(lines, x) == Cardinality({k \in DOMAIN lines : lines[k] = x})

\* C14: for n options the tally's score of each option is the sum, over all
\* recorded votes and all positions rank < n of a vote's ranked_options that
\* hold the option, of n - rank: positions from n on count nothing and an
\* option a ballot does not rank gets nothing from it.  The score lines of
\* final_decision are these scores, one line per option.
C14_ScoreIsBordaSum ==
    \A decision \in Tallied :
        LET expected == [i \in DOMAIN decision.voting_options |->
                            [title |-> decision.voting_options[i].title,
                             score |-> BordaScore(decision, decision.voting_options[i].option_id)]]
            lines == decision.final_decision.scores
        IN  /\ Len(lines) = Len(expected)
            /\ \A x \in Range(lines) \cup Range(expected) :
                  Occurrences(lines, x) = Occurrences(expected, x)
            /\ \A i \in DOMAIN expected : option_scores(decision)[i] = expected[i].score

\* a tally over a ballot longer than the option list, an empty ballot and a
\* ballot that leaves an option unranked
C14_Witness ==
    \E decision \in Tallied :
        /\ \E v \in DOMAIN decision.votes :
              Len(decision.votes[v].ranked_options) > Len(decision.voting_options)
        /\ \E v \in DOMAIN decision.votes :
              /\ decision.votes[v].ranked_options # <<>>
              /\ ~(valid_option_ids(decision) \subseteq Range(decision.votes[v].ranked_options))
        /\ decision.final_decision.kind = "tally"

\* whether decision_id names a decision in COMMITMENT, in either storage
InCommitment(active, completed, decision_id) ==
    \/ /\ decision_id \in DOMAIN active
       /\ active[decision_id].current_phase = "commitment"
    \/ /\ decision_id \notin DOMAIN active
       /\ \E i \in DOMAIN completed :
             /\ completed[i].decision_id = decision_id
             /\ completed[i].current_phase = "commitment"

\* C15: COMMITMENT is terminal: a decision whose current_phase is COMMITMENT is
\* in COMMITMENT after every step, and no submit_proposal, synthesize_options
\* or submit_vote on it succeeds.
C15_CommitmentIsTerminal ==
    [][InCommitment(active_decisions, completed_decisions, TheId) =>
          /\ InCommitment(active_decisions', completed_decisions', TheId)
          /\ (/\ last'.op \in {"submit_proposal", "synthesize_options", "submit_vote"}
              /\ last'.decision_id = TheId)
             => last'.ret = "False"]_vars

\* C16: finalize(d, text) returns true exactly when d is in active storage,
\* whatever its phase.  Then d leaves active storage and is appended once to
\* completed storage in COMMITMENT with end_time set, final_decision being
\* the text if a non-empty one was given and unchanged otherwise, every other
\* field as it was.  When d is not active, finalize returns false and changes
\* nothing.
C16_FinalizeMovesToCompleted ==
    [][CallOf("finalize") =>
          \A t \in FinalTexts :
              finalize_decision(TheId, t) =>
                  IF TheId \in DOMAIN active_decisions
                  THEN /\ last'.ret = "True"
                       /\ DOMAIN active_decisions' = (DOMAIN active_decisions) \ {TheId}
                       /\ \A d \in DOMAIN active_decisions' :
                             active_decisions'[d] = active_decisions[d]
                       /\ Len(completed_decisions') = Len(completed_decisions) + 1
                       /\ \A i \in DOMAIN completed_decisions :
                             completed_decisions'[i] = completed_decisions[i]
                       /\ LET moved == completed_decisions'[Len(completed_decisions')]
                              before == active_decisions[TheId]
                          IN  /\ moved.current_phase = "commitment"
                              /\ moved.end_time # <<>>
                              /\ moved.final_decision =
                                    IF t # "" THEN GivenText(t) ELSE before.final_decision
                              /\ moved = [before EXCEPT
                                            !.current_phase = moved.current_phase,
                                            !.end_time = moved.end_time,
                                            !.final_decision = moved.final_decision]
                  ELSE /\ last'.ret = "False"
                       /\ active_decisions' = active_decisions
                       /\ completed_decisions' = completed_decisions]_vars

\* a tallied decision was just finalized without a text: the completed record
\* keeps the tally's final_decision
C16_Witness ==
    /\ last = Call("finalize", TheId, "", "True")
    /\ TheId \notin DOMAIN active_decisions
    /\ Len(completed_decisions) = 1
    /\ completed_decisions[1].final_decision.kind = "tally"
    /\ completed_decisions[1].current_phase = "commitment"
    /\ completed_decisions[1].end_time # <<>>

C18_TriggerLeavesContextLoading ==
    (last.op = "trigger_tool" /\ last.ret = "id") =>
        /\ last.decision_id \in DOMAIN active_decisions
        /\ LET decision == active_decisions[last.decision_id]
           IN  /\ decision.current_phase = "context_loading"
               /\ decision.proposals = <<>>
               /\ decision.voting_options = <<>>
               /\ decision.votes = <<>>
               /\ decision.winning_option_id = ""
               /\ decision.winning_option = <<>>
        /\ \A a \in AgentNames : ~add_agent_proposal_accepts(last.decision_id, a)

\* C19: the trigger tool called with a conflict_type outside the five enum
\* values, or with an empty participating_agents list, reports failure and
\* creates no decision: active and completed storage are unchanged.
C19_InvalidTriggerCreatesNothing ==
    [][CallOf("trigger_tool") =>
          \A ct \in ToolConflictTypes, pa \in ToolParticipantLists :
              (/\ TriggerDemocraticDecisionTool_run(ct, pa)
               /\ ct \notin ConflictType \/ pa = <<>>)
              => /\ last'.ret = "TOOL_ERROR"
                 /\ active_decisions' = active_decisions
                 /\ completed_decisions' = completed_decisions]_vars

\* a trigger was just refused while a decision with a proposal is active
C19_Witness ==
    /\ last = Call("trigger_tool", NoId, "", "TOOL_ERROR")
    /\ TheId \in DOMAIN active_decisions
    /\ active_decisions[TheId].proposals # <<>>

\* C20: advance_phase(d, p) returns false and changes nothing when d is not in
\* active storage; when d is active it returns true and sets current_phase to
\* p, whatever the current and the requested phase, and changes no other
\* field of the decision and nothing else.
C20_AdvancePhaseSetsAnyPhase ==
    [][CallOf("advance_phase") =>
          \A ph \in VotingPhase :
              advance_phase(TheId, ph) =>
                  IF TheId \in DOMAIN active_decisions
                  THEN /\ last'.ret = "True"
                       /\ active_decisions' =
                             [active_decisions EXCEPT ![TheId].current_phase = ph]
                       /\ completed_decisions' = completed_decisions
                  ELSE /\ last'.ret = "False"
                       /\ active_decisions' = active_decisions
                       /\ completed_decisions' = completed_decisions]_vars

\* a decision with a recorded vote was just put back from RANKED_VOTING to SYNTHESIS
C20_Witness ==
    /\ last = Call("advance_phase", TheId, "", "True")
    /\ TheId \in DOMAIN active_decisions
    /\ active_decisions[TheId].current_phase = "synthesis"
    /\ active_decisions[TheId].votes # <<>>
    /\ active_decisions[TheId].proposals = <<>>

\* C21: a decision's voting_options change only through a synthesize request
\* made while the decision is active and in phase SYNTHESIS; a synthesize
\* request in any other phase is rejected and leaves voting_options and
\* current_phase (the stores) unchanged.
C21_OptionsChangeOnlyInSynthesis ==
    [][/\ (/\ TheId \in DOMAIN active_decisions
           /\ TheId \in DOMAIN active_decisions'
           /\ last'.op # "trigger_tool"
           /\ active_decisions'[TheId].voting_options
                 # active_decisions[TheId].voting_options)
          => /\ last'.op = "synthesize_tool"
             /\ active_decisions[TheId].current_phase = "synthesis"
       /\ (/\ CallOf("synthesize_tool")
           /\ ~(/\ TheId \in DOMAIN active_decisions
                /\ active_decisions[TheId].current_phase = "synthesis"))
          => /\ last'.ret # "success"
             /\ active_decisions' = active_decisions
             /\ completed_decisions' = completed_decisions]_vars

\* every record stored under decision_id: the active one and the completed ones
RecordsOf(active, completed, decision_id) ==
    <<IF decision_id \in DOMAIN active THEN <<active[decision_id]>> ELSE <<>>,
      SelectSeq(completed, LAMBDA record : record.decision_id = decision_id)>>

\* the decision_id the call making this step names or creates: the one the
\* stepping thread holds, or the one recorded for the call
StepId ==
    IF \E t \in Threads : threads'[t] # threads[t]
    THEN LET t == CHOOSE t \in Threads : threads'[t] # threads[t]
         IN  IF threads[t].pc = "idle" THEN threads'[t].decision_id
             ELSE threads[t].decision_id
    ELSE last'.decision_id

\* C22: operations on different decision_ids are independent: a step of a
\* trigger, advance_phase, submit_proposal, synthesize_options, submit_vote or
\* finalize call naming (or creating) decision d leaves every field of every
\* decision of another id, active or completed, unchanged, under any
\* interleaving of calls on distinct ids.
C22_OtherDecisionsUntouched ==
    [][\A d \in ParIds :
          d # StepId =>
              RecordsOf(active_decisions', completed_decisions', d)
                  = RecordsOf(active_decisions, completed_decisions, d)]_vars

\* one decision was just finalized while the other thread, between the append
\* and the threshold check of a vote, holds the other decision with its vote
C22_Witness ==
    /\ last = Call("finalize", ParId("t1"), "", "True")
    /\ threads["t2"].pc = "vote_threshold"
    /\ ParId("t2") \in DOMAIN active_decisions
    /\ Len(active_decisions[ParId("t2")].votes) = 1
    /\ Len(active_decisions[ParId("t2")].proposals) = 1
    /\ completed_decisions # <<>>
    /\ completed_decisions[1].proposals # <<>>

\* the proposals in the status of decision_id: those of the active record, else
\* those of the first completed record of that id, else none
ProposalsOf(active, completed, decision_id) ==
    IF decision_id \in DOMAIN active THEN active[decision_id].proposals
    ELSE IF \E i \in DOMAIN completed : completed[i].decision_id = decision_id
    THEN completed[CHOOSE i \in DOMAIN completed :
                      /\ completed[i].decision_id = decision_id
                      /\ \A j \in 1..(i - 1) : completed[j].decision_id # decision_id].proposals
    ELSE <<>>

IsPrefix(s, t) == Len(s) <= Len(t) /\ SubSeq(t, 1, Len(s)) = s

\* C23: proposals are immutable and append-only: for every decision_id, a
\* recorded proposal is present, with the same agent, proposal and reasoning
\* text and at the same position, in the status of that decision_id in every
\* later state; no operation edits, reorders or removes recorded proposals.
C23_ProposalsAppendOnly ==
    [][IsPrefix(ProposalsOf(active_decisions, completed_decisions, TheId),
                ProposalsOf(active_decisions', completed_decisions', TheId))]_vars

\* C24: phase transitions are explicit: submit_proposal, synthesize_options
\* and submit_vote (also a submit_vote that runs the tally) leave current_phase
\* unchanged and leave the decision in active storage, and a step in which the
\* current_phase of a decision changes is a step of advance_phase or finalize.
C24_PhaseChangesAreExplicit ==
    [][/\ (\/ CallOf("submit_proposal")
           \/ CallOf("synthesize_options")
           \/ CallOf("submit_vote"))
          => /\ DOMAIN active_decisions' = DOMAIN active_decisions
             /\ \A d \in DOMAIN active_decisions :
                   active_decisions'[d].current_phase = active_decisions[d].current_phase
             /\ completed_decisions' = completed_decisions
       /\ (/\ TheId \in DOMAIN active_decisions
           /\ last'.op # "trigger"
           /\ \/ TheId \notin DOMAIN active_decisions'
              \/ active_decisions'[TheId].current_phase
                    # active_decisions[TheId].current_phase)
          => last'.op \in {"advance_phase", "finalize"}]_vars

\* the last vote was just accepted and the tally stored a winner, with the
\* decision still active in RANKED_VOTING
C24_Witness ==
    /\ last.op = "submit_vote" /\ last.ret = "True"
    /\ TheId \in DOMAIN active_decisions
    /\ active_decisions[TheId].tally_runs = 1
    /\ active_decisions[TheId].winning_option_id # ""
    /\ active_decisions[TheId].current_phase = "ranked_voting"
    /\ Len(active_decisions[TheId].votes) = 2

\* C25: in sequential execution, over any sequence of operations on a
\* decision (phase changes back and forth and re-synthesis included),
\* submit_vote invokes the tally at most once for that decision: after a
\* submit_vote that triggered the tally no later submit_vote triggers it again.
C25_TallyAtMostOnce ==
    \A decision \in AllDecisions : decision.tally_runs <= 1

\* after the tally had run, the options were synthesized anew (the stored
\* winner is no current option) and a further vote was just turned down
C25_Witness ==
    /\ last.op = "submit_vote" /\ last.ret = "False"
    /\ TheId \in DOMAIN active_decisions
    /\ active_decisions[TheId].tally_runs = 1
    /\ active_decisions[TheId].current_phase = "ranked_voting"
    /\ active_decisions[TheId].winning_option_id = "option_2"
    /\ Len(active_decisions[TheId].voting_options) = 1

\* the theme first-match priority over the keyword groups gives the texts
\* that are proposed: meta before overview before technical, else general
C26_ExpectedTheme(proposal) ==
    CASE <<proposal.proposal, proposal.reasoning>> = <<"", "">> -> "general"
      [] <<proposal.proposal, proposal.reasoning>> = <<"", "code">> -> "technical_focus"
      [] <<proposal.proposal, proposal.reasoning>> = <<"Meta plan", "">> -> "meta_documentation"
      [] <<proposal.proposal, proposal.reasoning>> = <<"About code", "why">> -> "overview_approach"
      [] <<proposal.proposal, proposal.reasoning>> = <<"plan", "Showcase code">> -> "meta_documentation"
      [] <<proposal.proposal, proposal.reasoning>> = <<"plan", "why">> -> "general"

\* the proposals, in arrival order, whose expected theme is theme
C26_Assigned(proposals, theme) ==
    SelectSeq(proposals, LAMBDA proposal : C26_ExpectedTheme(proposal) = theme)

\* C26: clustering assigns every proposal to exactly one theme by first-match
\* priority over the keyword groups (meta, then overview, then technical, else
\* general) on the lower-cased proposal+reasoning text: there is one cluster
\* per theme met, its contributing_agents are the agents of the proposals of
\* that theme in arrival order, every proposing agent is in exactly one
\* cluster and the cluster sizes sum to the number of proposals.
C26_ClusteringPartitionsByFirstMatch ==
    last.op = "cluster_similar_proposals" =>
        LET proposals == active_decisions[TheId].proposals
            clusters == last.ret
        IN  /\ \A i, j \in DOMAIN clusters : i # j => clusters[i].theme # clusters[j].theme
            /\ \A p \in DOMAIN proposals :
                  /\ \E k \in DOMAIN clusters :
                        clusters[k].theme = C26_ExpectedTheme(proposals[p])
                  /\ Cardinality({k \in DOMAIN clusters :
                        proposals[p].agent_name \in Range(clusters[k].contributing_agents)}) = 1
            /\ \A k \in DOMAIN clusters :
                  LET assigned == C26_Assigned(proposals, clusters[k].theme)
                  IN  /\ assigned # <<>>
                      /\ clusters[k].contributing_agents =
                            [i \in DOMAIN assigned |-> assigned[i].agent_name]
            /\ Cardinality(UNION {{<<k, i>> : i \in DOMAIN clusters[k].contributing_agents} :
                                    k \in DOMAIN clusters}) = Len(proposals)

\* four proposals were clustered into three themes: a text with an overview
\* and a technical keyword went to overview_approach, a text whose reasoning
\* holds a meta keyword to meta_documentation, where it is the second agent
C26_Witness ==
    /\ last.op = "cluster_similar_proposals"
    /\ Len(active_decisions[TheId].proposals) = 4
    /\ Len(last.ret) = 3
    /\ \E k \in DOMAIN last.ret :
          /\ last.ret[k].theme = "overview_approach"
          /\ last.ret[k].representative_proposal = "About code"
    /\ \E k \in DOMAIN last.ret :
          /\ last.ret[k].theme = "meta_documentation"
          /\ Len(last.ret[k].contributing_agents) = 2
          /\ last.ret[k].representative_proposal = "Meta plan"

\* merged_reasoning as stated: the first proposal's reasoning followed, for
\* each later proposal in arrival order, by " | {agent}: {reasoning}"
RECURSIVE C27_Merged(_, _)
C27_Merged(assigned, upto) ==
    IF upto = 1 THEN assigned[1].reasoning
    ELSE C27_Merged(assigned, upto - 1)
            \o " | " \o assigned[upto].agent_name \o ": " \o assigned[upto].reasoning

\* C27: for every cluster produced by clustering any list of proposals
\* (proposals whose text is empty included), representative_proposal is the
\* proposal text of the first proposal assigned to that cluster, and
\* merged_reasoning is that first proposal's reasoning followed, for each
\* later proposal of the cluster in arrival order, by " | {agent}: {reasoning}".
C27_RepresentativeIsFirstProposal ==
    last.op = "cluster_similar_proposals" =>
        \A k \in DOMAIN last.ret :
            LET assigned == SelectSeq(active_decisions[TheId].proposals,
                                      LAMBDA proposal :
                                          proposal.agent_name
                                              \in Range(last.ret[k].contributing_agents))
            IN  /\ last.ret[k].representative_proposal = assigned[1].proposal
                /\ last.ret[k].merged_reasoning = C27_Merged(assigned, Len(assigned))

\* the cluster an option was made from: proposers are in one cluster each, so
\* the option's source_proposals name it
C28_ClusterOf(clusters, option) ==
    CHOOSE k \in DOMAIN clusters : clusters[k].contributing_agents = option.source_proposals

C29_RejectionIsDiagnosed ==
    /\ (last.op = "submit_proposal_tool" /\ last.ret # "submitted") =>
          last.ret \in {"not_found", "wrong_phase", "not_participating", "already_proposed"}
    /\ (last.op = "submit_vote_tool" /\ last.ret \notin {"submitted", "KeyError"}) =>
          last.ret \in {"not_found", "wrong_phase", "not_participating", "already_voted"}

\* C30: in every reachable state, whenever a decision's winning_option_id is
\* non-empty it is the option_id of an element of that decision's current
\* voting_options and winning_option is identical to that element (same
\* title, description and source_proposals), also after later advance_phase
\* and synthesize_options calls.
C30_WinnerIsCurrentOption ==
    \A decision \in AllDecisions :
        decision.winning_option_id # "" =>
            \E i \in DOMAIN decision.voting_options :
                /\ decision.voting_options[i].option_id = decision.winning_option_id
                /\ decision.winning_option = <<decision.voting_options[i]>>

\* C31: over trigger, advance_phase, submit_proposal, synthesize_options,
\* submit_vote and finalize, a decision's winning_option_id is non-empty only
\* if the number of recorded votes equals the number of participating agents:
\* no winner is stored while some participant's vote is still missing.
C31_WinnerOnlyWhenAllVoted ==
    \A decision \in AllDecisions :
        decision.winning_option_id # "" =>
            /\ Len(decision.votes) = Len(decision.participating_agents)
            /\ \A a \in Range(decision.participating_agents) : HasVoted(decision, a)

\* both participants of a decision have voted and the winner is stored, while
\* the decision has since been put back to IDEA_COLLECTION
C31_Witness ==
    /\ TheId \in DOMAIN active_decisions
    /\ active_decisions[TheId].winning_option_id # ""
    /\ Len(active_decisions[TheId].votes) = 2
    /\ active_decisions[TheId].participating_agents = <<"A", "B">>
    /\ active_decisions[TheId].current_phase = "idea_collection"

NoRepeats(s) == \A i, j \in DOMAIN s : i # j => s[i] # s[j]

\* C32: every accepted vote ranks each option at most once: its
\* ranked_options has no repeated option_id and is at most as long as the
\* option list, so one ballot gives at most n points to any one option.
C32_BallotRanksEachOptionOnce ==
    \A decision \in AllDecisions :
        \A v \in DOMAIN decision.votes :
            LET ranked == decision.votes[v].ranked_options
                n == Len(decision.voting_options)
            IN  /\ NoRepeats(ranked)
                /\ Len(ranked) <= n
                /\ \A o \in valid_option_ids(decision) : BallotPoints(ranked, o, n, 1) <= n

\* C33: for a non-empty participating_agents list and a non-empty option
\* list, whenever every participating agent has a recorded vote the tally has
\* run and winning_option_id is set: once each participant has cast a valid
\* vote in RANKED_VOTING the winner is stored without any further call.
C33_AllVotedImpliesWinner ==
    \A decision \in AllDecisions :
        (/\ decision.participating_agents # <<>>
         /\ decision.voting_options # <<>>
         /\ \A a \in Range(decision.participating_agents) : HasVoted(decision, a))
        => /\ decision.tally_runs >= 1
           /\ decision.winning_option_id # ""

\* C34: in every reachable state every decision in completed storage has
\* current_phase COMMITMENT and end_time set, and every decision in active
\* storage has end_time unset.
C34_EndTimeMarksCompleted ==
    /\ \A i \in DOMAIN completed_decisions :
           /\ completed_decisions[i].current_phase = "commitment"
           /\ completed_decisions[i].end_time # <<>>
    /\ \A d \in DOMAIN active_decisions : active_decisions[d].end_time = <<>>

\* a decision has just been finalized while another one, advanced to
\* COMMITMENT but not finalized, is still active
C34_Witness ==
    /\ last.op = "finalize" /\ last.ret = "True"
    /\ completed_decisions # <<>>
    /\ \E d \in DOMAIN active_decisions :
           /\ active_decisions[d].current_phase = "commitment"
           /\ active_decisions[d].end_time = <<>>

\* the arrival orders of a set of votes: the bijections on their positions
ArrivalOrders(votes) ==
    {f \in [DOMAIN votes -> DOMAIN votes] : \A a, b \in DOMAIN votes : a # b => f[a] # f[b]}

\* the decision with its recorded votes in another arrival order
Reordered(decision, order) ==
    [decision EXCEPT !.votes = [v \in DOMAIN decision.votes |-> decision.votes[order[v]]]]

\* C35: the tally result does not depend on the order in which the votes
\* arrived: for the same voting_options and the same accepted ballots every
\* arrival order gives the same score of each option, the same
\* winning_option_id and the same score ranking in final_decision.
C35_TallyIgnoresArrivalOrder ==
    \A decision \in Tallied :
        \A order \in ArrivalOrders(decision.votes) :
            LET other == Reordered(decision, order)
                tally == TallyResult(other)
            IN  /\ option_scores(other) = option_scores(decision)
                /\ <<tally.winning_option_id, tally.winning_option, tally.final_decision>>
                       = <<decision.winning_option_id, decision.winning_option,
                           decision.final_decision>>

\* a tally over two different ballots that leaves two options with the same
\* top score, the later of them ranked first by the vote that arrived first
C35_Witness ==
    \E decision \in Tallied :
        /\ Len(decision.votes) = 2
        /\ decision.votes[1].ranked_options # decision.votes[2].ranked_options
        /\ decision.votes[1].ranked_options # <<>>
        /\ decision.votes[1].ranked_options[1] = "option_2"
        /\ decision.winning_option_id = "option_1"
        /\ option_scores(decision)[1] = option_scores(decision)[2]
        /\ decision.final_decision.kind = "tally"

====
